---- MODULE Spec2Model ----
(***************************************************************************)
(* Model of src/utils.py: the URL identifier extractor, the credential     *)
(* validators and the Airtable-to-CSV snapshot converter.                  *)
(*                                                                         *)
(* Strings are sequences of one-character strings.  Regular expressions    *)
(* are matched the way Python's re.match matches them: anchored at the     *)
(* start of the string, '.' matching every character except a newline,     *)
(* '$' matching at the end of the string or just before a final newline,   *)
(* greedy and lazy repetitions tried in the backtracking order.            *)
(***************************************************************************)
EXTENDS Integers, Sequences, FiniteSets, TLC

VARIABLES
    arg,            \* the string handed to the pure functions
    ret,            \* per function name, what the call on arg returned (or Pending)
    session_state,  \* st.session_state: AIRTABLE_PAT and AIRTABLE_URL
    remote,         \* what the remote table holds / how the fetch ends
    fs,             \* the file system: path -> file content
    call,           \* the outcome of the last airtable_to_csv call
    returned        \* the paths returned by the successful calls, in call order

vars == <<arg, ret, session_state, remote, fs, call, returned>>

----------------------------------------------------------------------------
(* Bounds of the model *)

MaxTail == 4        \* longest free tail after a URL head
MaxSeg == 2         \* longest free part of a tagged app.../tbl... segment
MaxKey == 4         \* longest API key candidate
MaxRecords == 2     \* most records the remote fetch returns
MaxFiles == 2       \* temporary files the file system has room for

----------------------------------------------------------------------------
(* Characters *)

NL == "\n"
Letters == {"h", "t", "p", "s", "a", "i", "r", "b", "l", "e", "c", "o", "m", "k", "x"}
Digits == {"1"}
\* str.isalnum characters
AlnumChars == Letters \cup Digits
\* \w (which already contains \d): alphanumerics and the underscore
WordChars == AlnumChars \cup {"_"}

\* the regex element '.'
Dot == "DOT"

RECURSIVE SeqsUpTo(_, _)
SeqsUpTo(S, n) ==
    IF n = 0 THEN {<<>>}
    ELSE LET shorter == SeqsUpTo(S, n - 1)
         IN  shorter \cup {Append(t, c) : t \in shorter, c \in S}

----------------------------------------------------------------------------
(* re.match primitives *)

\* one pattern element against one character
MatchElem(e, c) == IF e = Dot THEN c # NL ELSE e = c

\* a run of literal / '.' elements matched at position i of s
MatchLit(pat, s, i) ==
    /\ i + Len(pat) - 1 <= Len(s)
    /\ \A k \in 1..Len(pat) : MatchElem(pat[k], s[i + k - 1])

\* '$' without re.MULTILINE, tested before position i
AtEnd(s, i) == i = Len(s) + 1 \/ (i = Len(s) /\ s[i] = NL)

SetMax(S) == CHOOSE x \in S : \A y \in S : y <= x
SetMin(S) == CHOOSE x \in S : \A y \in S : x <= y

----------------------------------------------------------------------------
(* extract_ids_from_base_url *)

\* https://airtable.com/   with the pattern's unescaped '.'
UrlHeadPattern ==
    <<"h", "t", "t", "p", "s", ":", "/", "/",
      "a", "i", "r", "t", "a", "b", "l", "e", Dot, "c", "o", "m", "/">>

InvalidBaseUrl == [exc |-> "ValueError", msg |-> "Invalid base URL"]

\* ends k of group 1, ([\w\d]+), started at position i
Group1Ends(s, i) == {k \in i..Len(s) : \A m \in i..k : s[m] \in WordChars \cup Digits}

\* ends j of group 2, (.*?), started at position i and followed by (?:/|$)
Group2Ends(s, i) ==
    {j \in (i - 1)..Len(s) :
        /\ \A m \in i..j : s[m] # NL
        /\ \/ (j + 1 <= Len(s) /\ s[j + 1] = "/")
           \/ AtEnd(s, j + 1)}

\* the ends of group 1 from which the rest of the pattern matches
ExtractSplits(s) ==
    LET i == Len(UrlHeadPattern) + 1
    IN  {k \in Group1Ends(s, i) :
            /\ k + 1 <= Len(s)
            /\ s[k + 1] = "/"
            /\ Group2Ends(s, k + 2) # {}}

\* the extractor with group 2 greedy, (.*) in place of (.*?)
extract_ids_greedy(base_url) ==
    IF MatchLit(UrlHeadPattern, base_url, 1) /\ ExtractSplits(base_url) # {}
    THEN LET i == Len(UrlHeadPattern) + 1
             k == SetMax(ExtractSplits(base_url))
             j == SetMax(Group2Ends(base_url, k + 2))
         IN  [base_id |-> SubSeq(base_url, i, k), table_id |-> SubSeq(base_url, k + 2, j)]
    ELSE InvalidBaseUrl

extract_ids_from_base_url(base_url) ==
    IF MatchLit(UrlHeadPattern, base_url, 1) /\ ExtractSplits(base_url) # {}
    THEN LET i == Len(UrlHeadPattern) + 1
             \* greedy group 1: the longest end that lets the rest match
             k == SetMax(ExtractSplits(base_url))
             \* lazy group 2: the shortest end followed by '/' or '$'
             j == SetMin(Group2Ends(base_url, k + 2))
         IN  [base_id |-> SubSeq(base_url, i, k), table_id |-> SubSeq(base_url, k + 2, j)]
    ELSE InvalidBaseUrl

----------------------------------------------------------------------------
(* validate_api_key, validate_base_url *)

ApiKeyPattern == <<"s", "k", "-">>

\* the validator with the pattern ^sk, without the dash
validate_api_key_two(api_key_input) == MatchLit(<<"s", "k">>, api_key_input, 1)

validate_api_key(api_key_input) == MatchLit(ApiKeyPattern, api_key_input, 1)

AppTag == <<"a", "p", "p">>
TblTag == <<"t", "b", "l">>

\* ends k of a [^\/]+ started at position i
NonSlashEnds(s, i) == {k \in i..Len(s) : \A m \in i..k : s[m] # "/"}

\* the validator with a pattern that stops after the base segment
validate_base_url_no_table(airtable_base_url_input) ==
    LET s == airtable_base_url_input
        i == Len(UrlHeadPattern) + 1
    IN  /\ MatchLit(UrlHeadPattern, s, 1)
        /\ MatchLit(AppTag, s, i)
        /\ NonSlashEnds(s, i + 3) # {}

validate_base_url(airtable_base_url_input) ==
    LET s == airtable_base_url_input
        i == Len(UrlHeadPattern) + 1
    IN  /\ MatchLit(UrlHeadPattern, s, 1)
        /\ MatchLit(AppTag, s, i)
        /\ \E k \in NonSlashEnds(s, i + 3) :
              /\ MatchLit(<<"/">>, s, k + 1)
              /\ MatchLit(TblTag, s, k + 2)
              /\ NonSlashEnds(s, k + 5) # {}

----------------------------------------------------------------------------
(* The inputs the pure functions are run on *)

\* https://airtable.com/ , character by character
LiteralHead ==
    <<"h", "t", "t", "p", "s", ":", "/", "/",
      "a", "i", "r", "t", "a", "b", "l", "e", ".", "c", "o", "m", "/">>

DotPos == 17
ReplaceAt(s, p, c) == [s EXCEPT ![p] = c]

\* the exact head, the head with another character for the dot, with a
\* newline for the dot, with another top-level domain, and no head at all
Heads ==
    {LiteralHead,
     ReplaceAt(LiteralHead, DotPos, "x"),
     ReplaceAt(LiteralHead, DotPos, NL),
     ReplaceAt(LiteralHead, 20, "x"),
     <<>>}

\* an alphanumeric, the underscore, a non-word character, the slash, the newline
TailChars == {"a", "_", "-", "/", NL}
KeyChars == {"s", "k", "-", "x"}

FreeUrls == {h \o t : h \in Heads, t \in SeqsUpTo(TailChars, MaxTail)}

TaggedUrls ==
    {h \o AppTag \o x \o <<"/">> \o TblTag \o y :
        h \in {LiteralHead, ReplaceAt(LiteralHead, DotPos, "x")},
        x \in SeqsUpTo(TailChars, MaxSeg),
        y \in SeqsUpTo(TailChars, MaxSeg)}

Keys == SeqsUpTo(KeyChars, MaxKey)

Inputs == FreeUrls \cup TaggedUrls \cup Keys

Pending == [pending |-> TRUE]
Returned(v) == [value |-> v]
Functions == {"extract_ids_from_base_url", "validate_api_key", "validate_base_url"}

----------------------------------------------------------------------------
(* Session state, the remote table, the file system *)

Absent == [absent |-> TRUE]
Present(v) == [value |-> v]

\* st.session_state.get(key, default)
Get(ss, key, default) == IF ss[key] = Absent THEN default ELSE ss[key].value

\* None, which "not access_token" treats like the empty string
None == <<>>

Token == <<"p", "a", "t", "1">>
GoodUrl == LiteralHead \o AppTag \o <<"1", "/">> \o TblTag \o <<"1">>
SessionUrls ==
    {GoodUrl,                                   \* .../app1/tbl1
     LiteralHead \o AppTag \o <<"1">>,          \* only the base segment
     <<>>}

SessionStates ==
    [AIRTABLE_PAT : {Absent, Present(<<>>), Present(Token)},
     AIRTABLE_URL : {Absent} \cup {Present(u) : u \in SessionUrls}]

\* field values as the remote API returns them: a type and a printed form
StrVal(x) == [type |-> "str", repr |-> x]
IntVal(x) == [type |-> "int", repr |-> x]
NaN == [type |-> "float", repr |-> "nan"]

FieldNames == {"Name", "Age", "id"}
FieldValues(n) ==
    CASE n = "Name" -> {StrVal("A")}
      [] n = "Age" -> {IntVal("30")}
      [] n = "id" -> {StrVal("x")}

FieldMaps ==
    UNION {{f \in [S -> UNION {FieldValues(n) : n \in S}] :
                \A n \in S : f[n] \in FieldValues(n)} : S \in SUBSET FieldNames}

\* the remote identifiers, one per record of the table
RecordIds == <<"r1", "r2", "r3", "r4">>
RecordSeqs ==
    {[i \in 1..Len(fms) |-> [id |-> RecordIds[i], fields |-> fms[i]]] :
        fms \in SeqsUpTo(FieldMaps, MaxRecords)}

UpstreamErrors ==
    {[exc |-> "HTTPError", msg |-> "401 Unauthorized"],
     [exc |-> "ConnectionError", msg |-> "connection refused"]}

Remotes == {[records |-> rs] : rs \in RecordSeqs} \cup UpstreamErrors

IsExc(r) == "exc" \in DOMAIN r

Paths == {[path |-> n] : n \in 1..MaxFiles}
NoFiles == [p \in {} |-> <<>>]

----------------------------------------------------------------------------
(* airtable_to_csv, step by step *)

MissingToken ==
    [exc |-> "ValueError", msg |-> "Airtable Personal Access Token is not set."]

\* the preconditions in the other order: the URL parsed before the token is looked at
PreconditionsUrlFirst(ss) ==
    LET access_token == Get(ss, "AIRTABLE_PAT", None)
        ids_from_url == extract_ids_from_base_url(Get(ss, "AIRTABLE_URL", <<>>))
    IN  IF IsExc(ids_from_url) THEN ids_from_url
        ELSE IF access_token = None THEN MissingToken
        ELSE [access_token |-> access_token,
              base_id |-> ids_from_url.base_id,
              table_id |-> ids_from_url.table_id]

\* the token check, then the URL's identifiers: the arguments of Table(...)
\* or the exception raised.  "not access_token" holds of None and of ""
Preconditions(ss) ==
    LET access_token == Get(ss, "AIRTABLE_PAT", None)
    IN  IF access_token = None THEN MissingToken
        ELSE LET ids_from_url ==
                     extract_ids_from_base_url(Get(ss, "AIRTABLE_URL", <<>>))
             IN  IF IsExc(ids_from_url) THEN ids_from_url
                 ELSE [access_token |-> access_token,
                       base_id |-> ids_from_url.base_id,
                       table_id |-> ids_from_url.table_id]

\* a fetch that is tried once more when it fails
table_all_retry(table, rem) ==
    IF IsExc(rem)
    THEN <<[table |-> table, outcome |-> rem], [table |-> table, outcome |-> rem]>>
    ELSE <<[table |-> table, outcome |-> rem]>>

\* table.all(): the fetches the call makes of the remote table, with their outcome
table_all(table, rem) == <<[table |-> table, outcome |-> rem]>>

\* row['id'] = record['id'] on the mapping f
SetId(f, v) == [n \in DOMAIN f \cup {"id"} |-> IF n = "id" THEN v ELSE f[n]]

\* the loop collecting the rows in reverse
BuildRowsReversed(all_records) ==
    [i \in 1..Len(all_records) |->
        [id |-> all_records[Len(all_records) + 1 - i].id,
         fields |-> SetId(all_records[Len(all_records) + 1 - i].fields,
                          StrVal(all_records[Len(all_records) + 1 - i].id))]]

\* the loop over all_records: row is record['fields'] itself, not a copy, so
\* the assignment of row['id'] lands in the record; the result is the records
\* after the loop, whose field mappings are the rows
BuildRows(all_records) ==
    [i \in 1..Len(all_records) |->
        [id |-> all_records[i].id,
         fields |-> SetId(all_records[i].fields, StrVal(all_records[i].id))]]

RowsOf(records_after) == [i \in 1..Len(records_after) |-> records_after[i].fields]

\* pd.DataFrame(rows): the columns are the union of the rows' keys, a row
\* without a key holds NaN there
DataFrame(rows) ==
    LET columns == UNION {DOMAIN rows[i] : i \in 1..Len(rows)}
    IN  [columns |-> columns,
         rows |-> [i \in 1..Len(rows) |->
                      [c \in columns |->
                          IF c \in DOMAIN rows[i] THEN rows[i][c] ELSE NaN]]]

\* a column of integers with a NaN in it is a float64 column
IsFloatColumn(df, c) ==
    /\ \E i \in 1..Len(df.rows) : df.rows[i][c] = NaN
    /\ \A i \in 1..Len(df.rows) : df.rows[i][c].type \in {"int", "float"}

FloatRepr(x) == CASE x = "30" -> "30.0" [] OTHER -> x

\* what to_csv prints for a cell
CellText(v, float) ==
    IF v = NaN THEN ""
    ELSE IF float /\ v.type = "int" THEN FloatRepr(v.repr)
    ELSE v.repr

\* df.to_csv(..., index=False): the header line, then one line per row
to_csv(df) ==
    <<[cells |-> [c \in df.columns |-> c]]>> \o
    [i \in 1..Len(df.rows) |->
        [cells |-> [c \in df.columns |->
                       CellText(df.rows[i][c], IsFloatColumn(df, c))]]]

\* a name picked without looking at the files that exist
NamedTemporaryFileAny(files) == Paths

\* tempfile.NamedTemporaryFile(delete=False): the names it may create
NamedTemporaryFile(files) == Paths \ DOMAIN files

WriteFile(files, p, content) ==
    [q \in DOMAIN files \cup {p} |-> IF q = p THEN content ELSE files[q]]

\* the call fails before the fetch
airtable_to_csv_rejected ==
    LET pre == Preconditions(session_state)
    IN  /\ IsExc(pre)
        /\ call' = [ret |-> pre, fetches |-> <<>>, all_records |-> <<>>,
                    created |-> {}]
        /\ UNCHANGED <<fs, returned, arg, ret, session_state, remote>>

\* the fetch fails: its exception leaves the function
airtable_to_csv_fetch_failed ==
    LET pre == Preconditions(session_state)
    IN  /\ ~IsExc(pre)
        /\ IsExc(remote)
        /\ call' = [ret |-> remote, fetches |-> table_all(pre, remote),
                    all_records |-> <<>>, created |-> {}]
        /\ UNCHANGED <<fs, returned, arg, ret, session_state, remote>>

\* the fetch succeeds; the temporary file is created and to_csv writes its
\* lines into it: all of them, or, when the write fails, none or all but the last
airtable_to_csv_fetched ==
    LET pre == Preconditions(session_state)
    IN  /\ ~IsExc(pre)
        /\ ~IsExc(remote)
        /\ LET records_after == BuildRows(remote.records)
               lines == to_csv(DataFrame(RowsOf(records_after)))
           IN  \E tmp_file \in NamedTemporaryFile(fs) :
               \E written \in {0, Len(lines) - 1, Len(lines)} :
                  /\ fs' = WriteFile(fs, tmp_file, SubSeq(lines, 1, written))
                  /\ call' = [ret |-> IF written = Len(lines) THEN tmp_file
                                      ELSE [exc |-> "OSError", msg |-> "write failed"],
                              fetches |-> table_all(pre, remote),
                              all_records |-> records_after,
                              created |-> {tmp_file}]
                  /\ returned' = IF written = Len(lines)
                                 THEN Append(returned, tmp_file)
                                 ELSE returned
        /\ UNCHANGED <<arg, ret, session_state, remote>>

airtable_to_csv ==
    \/ airtable_to_csv_rejected
    \/ airtable_to_csv_fetch_failed
    \/ airtable_to_csv_fetched

NoCall == [ret |-> Pending, fetches |-> <<>>, all_records |-> <<>>, created |-> {}]

Init ==
    /\ arg = <<>>
    /\ ret = [f \in Functions |-> Pending]
    /\ session_state \in SessionStates
    /\ remote \in Remotes
    /\ fs = NoFiles
    /\ call = NoCall
    /\ returned = <<>>

Next == airtable_to_csv

Spec == Init /\ [][Next]_vars

----------------------------------------------------------------------------
(* The pure functions run on an input *)

CallExtract ==
    /\ ret["extract_ids_from_base_url"] = Pending
    /\ ret' = [ret EXCEPT !["extract_ids_from_base_url"] = extract_ids_from_base_url(arg)]
    /\ UNCHANGED <<arg, session_state, remote, fs, call, returned>>

CallValidateApiKey ==
    /\ ret["validate_api_key"] = Pending
    /\ ret' = [ret EXCEPT !["validate_api_key"] = Returned(validate_api_key(arg))]
    /\ UNCHANGED <<arg, session_state, remote, fs, call, returned>>

CallValidateBaseUrl ==
    /\ ret["validate_base_url"] = Pending
    /\ ret' = [ret EXCEPT !["validate_base_url"] = Returned(validate_base_url(arg))]
    /\ UNCHANGED <<arg, session_state, remote, fs, call, returned>>

InitUrl ==
    /\ arg \in Inputs
    /\ ret = [f \in Functions |-> Pending]
    /\ session_state = [AIRTABLE_PAT |-> Absent, AIRTABLE_URL |-> Absent]
    /\ remote = [records |-> <<>>]
    /\ fs = NoFiles
    /\ call = NoCall
    /\ returned = <<>>

NextUrl == CallExtract \/ CallValidateApiKey \/ CallValidateBaseUrl

SpecUrl == InitUrl /\ [][NextUrl]_vars

----------------------------------------------------------------------------
(* Properties of the pure functions, checked under SpecUrl *)

Chars(s) == {s[m] : m \in 1..Len(s)}
StartsWith(s, tag) == Len(s) >= Len(tag) /\ SubSeq(s, 1, Len(tag)) = tag

\* the first slash of s at or after position i, Len(s) + 1 when there is none
FirstSlash(s, i) == SetMin({m \in i..Len(s) : s[m] = "/"} \cup {Len(s) + 1})

\* the segment after the head and the segment after that one
SegStart == Len(LiteralHead) + 1
BaseSeg(s) == SubSeq(s, SegStart, FirstSlash(s, SegStart) - 1)
TableStart(s) == FirstSlash(s, SegStart) + 1
TableSeg(s) == SubSeq(s, TableStart(s), FirstSlash(s, TableStart(s)) - 1)

\* s is https://airtable.com/<A>/<B>, optionally followed by /<anything>,
\* A one or more alphanumerics and B a run of non-slash characters
HasClaimForm(s) ==
    /\ StartsWith(s, LiteralHead)
    /\ FirstSlash(s, SegStart) <= Len(s)
    /\ BaseSeg(s) # <<>>
    /\ Chars(BaseSeg(s)) \subseteq AlnumChars

Extracted == ret["extract_ids_from_base_url"]
KeyValid == ret["validate_api_key"]
UrlValid == ret["validate_base_url"]

\* C1, as amended: for every string https://airtable.com/<A>/<B>[/...] with A
\* one or more alphanumerics and B a run of characters that are neither a
\* slash nor a newline, extract_ids_from_base_url returns exactly
\* {base_id: A, table_id: B}.
C1_ExtractVerbatimNoNewline ==
    (Extracted # Pending /\ HasClaimForm(arg) /\ NL \notin Chars(TableSeg(arg)))
        => Extracted = [base_id |-> BaseSeg(arg), table_id |-> TableSeg(arg)]

\* C1 as stated: B is any run of non-slash characters.
C1_ExtractVerbatim ==
    (Extracted # Pending /\ HasClaimForm(arg))
        => Extracted = [base_id |-> BaseSeg(arg), table_id |-> TableSeg(arg)]

\* a URL of the form, with a table segment of three characters followed by
\* a further path, has been parsed into its two segments
C1_Witness ==
    /\ Extracted # Pending
    /\ HasClaimForm(arg)
    /\ NL \notin Chars(TableSeg(arg))
    /\ Len(TableSeg(arg)) >= 3
    /\ FirstSlash(arg, TableStart(arg)) < Len(arg)
    /\ Extracted = [base_id |-> BaseSeg(arg), table_id |-> TableSeg(arg)]

\* C2, for the strings it names last: a string whose head differs from
\* https://airtable.com/ in any character is not of the form, so
\* extract_ids_from_base_url fails on it with "Invalid base URL" and returns
\* no identifiers.
C2_RejectsOtherHost ==
    (Extracted # Pending /\ ~StartsWith(arg, LiteralHead))
        => Extracted = InvalidBaseUrl

\* C8, as amended: validate_api_key(s) is a boolean for every string, true
\* if and only if the first three characters of s are "sk-"; false for the
\* empty string and for every string shorter than that prefix.
C8_ApiKeyIffThreeCharPrefix ==
    KeyValid # Pending =>
        /\ KeyValid.value \in BOOLEAN
        /\ KeyValid.value <=> StartsWith(arg, <<"s", "k", "-">>)
        /\ Len(arg) < 3 => KeyValid.value = FALSE

\* C8 as stated: true if and only if the first two characters are the prefix.
C8_ApiKeyIffTwoCharPrefix ==
    KeyValid # Pending =>
        /\ KeyValid.value \in BOOLEAN
        /\ KeyValid.value <=> StartsWith(arg, <<"s", "k">>)

\* a key with the prefix and more has been accepted
C8_Witness ==
    /\ KeyValid = Returned(TRUE)
    /\ Len(arg) > 3

\* the base segment is made of word characters, and the table segment holds
\* no newline unless it is the last character of the string
ParserFriendly(s) ==
    /\ Chars(BaseSeg(s)) \subseteq WordChars
    /\ \A m \in TableStart(s)..(FirstSlash(s, TableStart(s)) - 1) :
          s[m] = NL => m = Len(s)

IsIds(r) == "base_id" \in DOMAIN r

\* C10, as amended: for every string u with validate_base_url(u) = true
\* whose base segment consists of letters, digits and underscores and whose
\* table segment has no newline other than one that ends u,
\* extract_ids_from_base_url(u) does not raise, and the base_id it returns
\* starts with app and the table_id with tbl.
C10_GateImpliesParserOnWordSegments ==
    (UrlValid = Returned(TRUE) /\ Extracted # Pending /\ ParserFriendly(arg))
        => /\ IsIds(Extracted)
           /\ StartsWith(Extracted.base_id, AppTag)
           /\ StartsWith(Extracted.table_id, TblTag)

\* C10 as stated: for every string the gate accepts.
C10_GateImpliesParser ==
    (UrlValid = Returned(TRUE) /\ Extracted # Pending)
        => /\ IsIds(Extracted)
           /\ StartsWith(Extracted.base_id, AppTag)
           /\ StartsWith(Extracted.table_id, TblTag)

\* an accepted URL has been parsed, its identifiers longer than their tags
C10_Witness ==
    /\ UrlValid = Returned(TRUE)
    /\ IsIds(Extracted)
    /\ ParserFriendly(arg)
    /\ StartsWith(Extracted.base_id, AppTag) /\ Len(Extracted.base_id) > 3
    /\ StartsWith(Extracted.table_id, TblTag) /\ Len(Extracted.table_id) > 3

----------------------------------------------------------------------------
(* Properties of airtable_to_csv, checked under Spec *)

Called == call.ret # Pending
Succeeded == Called /\ ~IsExc(call.ret)
Fetched == call.fetches # <<>> /\ ~IsExc(call.fetches[1].outcome)
\* the records as the fetch returned them
FetchedRecords == call.fetches[1].outcome.records
\* the snapshot the call returned
Snapshot == fs[call.ret]
Columns(lines) == DOMAIN lines[1].cells

NoToken ==
    \/ session_state["AIRTABLE_PAT"] = Absent
    \/ session_state["AIRTABLE_PAT"] = Present(<<>>)
BadUrl ==
    \/ session_state["AIRTABLE_URL"] = Absent
    \/ IsExc(extract_ids_from_base_url(session_state["AIRTABLE_URL"].value))

\* C3: with no access token in session state (none, or the empty string) the
\* call fails with the missing-token error whatever the URL is; with a token
\* and a URL that is absent or that the extractor rejects it fails with
\* "Invalid base URL"; in both cases nothing is fetched and no file is created.
C3_PreconditionsInOrder ==
    Called =>
        /\ NoToken => call.ret = MissingToken
        /\ (~NoToken /\ BadUrl) => call.ret = InvalidBaseUrl
        /\ (NoToken \/ BadUrl) =>
              (call.fetches = <<>> /\ call.created = {} /\ fs = NoFiles)

\* no token and a URL the extractor rejects: the token is what is reported
C3_Witness ==
    /\ Called
    /\ session_state["AIRTABLE_PAT"] = Absent
    /\ session_state["AIRTABLE_URL"] # Absent
    /\ BadUrl
    /\ ~IsExc(remote) /\ remote.records # <<>>
    /\ call.ret = MissingToken
    /\ call.fetches = <<>>

\* the values of the id column as a reader of the snapshot gets them: the
\* lines after the header, none when the header has no such column
ReadBackIds(lines) ==
    IF "id" \in Columns(lines)
    THEN [i \in 1..(Len(lines) - 1) |-> lines[i + 1].cells["id"]]
    ELSE <<>>

\* C4: whatever records the fetch returns, none included, the call fails
\* only if the file cannot be written, and the snapshot it returns has one
\* row per record, in fetch order, whose id is the record's identifier:
\* read back, it gives the same number of rows and the same ids in order.
C4_OneRowPerRecordInOrder ==
    /\ (Called /\ Fetched /\ IsExc(call.ret)) => call.ret.exc = "OSError"
    /\ Succeeded =>
          /\ Len(Snapshot) - 1 = Len(FetchedRecords)
          /\ ReadBackIds(Snapshot) =
                 [i \in 1..Len(FetchedRecords) |-> FetchedRecords[i].id]

\* two records, the second with a field of its own named id, in a snapshot
C4_Witness ==
    /\ Succeeded
    /\ Len(FetchedRecords) = 2
    /\ "id" \in DOMAIN FetchedRecords[2].fields
    /\ ReadBackIds(Snapshot) = <<FetchedRecords[1].id, FetchedRecords[2].id>>

\* the text of a value, an integer possibly printed as a float
SameValue(v, text) == text = v.repr \/ (v.type = "int" /\ text = FloatRepr(v.repr))

\* C5 as stated, for a fetch of at least one record: the columns are the
\* union of the records' field names plus id, a row whose record lacks a
\* column holds the empty value there, and every field a record has keeps
\* its value in the record's row.
C5_ColumnsAreUnionAndFieldsKept ==
    (Succeeded /\ FetchedRecords # <<>>) =>
        /\ Columns(Snapshot) =
              UNION {DOMAIN FetchedRecords[i].fields : i \in 1..Len(FetchedRecords)}
                  \cup {"id"}
        /\ \A i \in 1..Len(FetchedRecords) : \A c \in Columns(Snapshot) :
              IF c \in DOMAIN FetchedRecords[i].fields
              THEN SameValue(FetchedRecords[i].fields[c], Snapshot[i + 1].cells[c])
              ELSE c # "id" => Snapshot[i + 1].cells[c] = ""

\* C6: a call fetches at most once; a failed fetch ends the call with that
\* very failure, nothing created and nothing returned; a call that returns a
\* path returns that of a file holding every line of the snapshot, and a
\* call that fails returns no path.
C6_OneFetchFailureUnchanged ==
    Called =>
        /\ Len(call.fetches) <= 1
        /\ (call.fetches # <<>> /\ IsExc(call.fetches[1].outcome)) =>
              /\ call.ret = call.fetches[1].outcome
              /\ call.created = {}
        /\ Succeeded =>
              /\ call.ret \in DOMAIN fs
              /\ Snapshot = to_csv(DataFrame(RowsOf(call.all_records)))
              /\ Len(Snapshot) = Len(FetchedRecords) + 1
        /\ IsExc(call.ret) => \A i \in 1..Len(returned) : returned[i] \notin call.created

\* the fetch failed once and the call ended with its failure
C6_Witness ==
    /\ Called
    /\ Len(call.fetches) = 1
    /\ call.fetches[1].outcome \in UpstreamErrors
    /\ call.ret = call.fetches[1].outcome

\* C7: each call that gets to write creates a file that did not exist, no
\* call changes or removes a file that exists, the paths returned so far are
\* pairwise distinct and each of them is still a file.
C7_FreshFileEveryCall ==
    [][/\ \A p \in DOMAIN fs : p \in DOMAIN fs' /\ fs'[p] = fs[p]
       /\ call'.created \cap DOMAIN fs = {}
       /\ \A i, j \in 1..Len(returned') : returned'[i] = returned'[j] => i = j
       /\ \A i \in 1..Len(returned') : returned'[i] \in DOMAIN fs']_vars

\* two calls have succeeded, on two files
C7_Witness ==
    /\ Len(returned) = 2
    /\ returned[1] # returned[2]
    /\ {returned[1], returned[2]} \subseteq DOMAIN fs
    /\ Len(fs[returned[1]]) > 1

\* C9 as stated: after the call every fetched record's field mapping is what
\* the fetch returned, no id key added and a field named id unchanged.
C9_RecordsUntouched ==
    Succeeded =>
        \A i \in 1..Len(FetchedRecords) :
            call.all_records[i].fields = FetchedRecords[i].fields

====
